---- MODULE Spec2Model ----
(***************************************************************************)
(* Model of the SEO audit engine, audit_engine.run_seo_audit.              *)
(*                                                                         *)
(* One audit is one pass through the function body.  pc is the position   *)
(* in the body; each check block of the source is one action.  The fields *)
(* of the fetched page (title length, number of H1 tags, ...) are drawn   *)
(* when the check that reads them runs; each is drawn from the values on  *)
(* both sides of the thresholds the source compares it with.              *)
(***************************************************************************)
EXTENDS Integers, Sequences, FiniteSets, TLC

\* ---------------------------------------------------------------- bounds
\* The audited pages are those on which at most MaxDirty checks trigger,
\* together with those on which at most MaxClean checks do not trigger.
MaxDirty == 3
MaxClean == 1
\* the most findings of a run that takes the check blocks in any order
MaxPermuted == 3
\* the most findings of a report handed to the POST /audit handler
MaxReported == 1

\* ------------------------------------------------------- audit inputs
location == "Tampa"
business_type == "roof repair"
\* business_type.lower().split()
business_keywords == <<"roof", "repair">>

\* HTTP statuses the primary GET may complete with
Statuses == {200, 404}

\* measured values, on both sides of every threshold of the source
TitleLengths == {29, 30, 60, 61}
DescLengths == {119, 120, 160, 161}
H1Counts == {0, 1, 2}
OgCounts == {2, 3}
PageSizesKb == {2000, 2001}
\* load time in tenths of a second
LoadTimes == {30, 31}
LinkCounts == {4, 5}
WordCounts == {299, 300, 499, 500}

VARIABLES
    pc,                 \* position in run_seo_audit
    status,             \* response.status_code of the primary GET (0: none)
    scores,
    findings,
    quick_wins,
    word_count,         \* -1 until the word-count check has bound it
    location_mentioned, \* bound by the location check
    has_phone,          \* bound by the phone check
    sitemap_response,   \* status code of the sitemap probe; 0: unbound,
                        \* -1: the probe GET raised
    robots_response,    \* the same for the robots.txt probe
    summary,
    thirty_day_plan,
    result,             \* <<>>, or <<report>> once the function has returned
    error,              \* "" or the message of the raised exception
    executed,           \* the check blocks that have run
    lead_id,            \* id of the lead row committed by POST /audit (0: none)
    delivery,           \* how the two emails of POST /audit ended
    response            \* <<>>, or <<the HTTP response of POST /audit>>

vars == <<pc, status, scores, findings, quick_wins, word_count,
          location_mentioned, has_phone, sitemap_response, robots_response,
          summary, thirty_day_plan, result, error, executed, lead_id,
          delivery, response>>

\* -------------------------------------------------------- helpers
\* the order of the blocks of the function body
PcOrder == <<"fetch", "https", "www", "title", "meta", "h1", "canonical",
             "robots_meta", "og", "schema", "page_size", "load_time",
             "links", "word_count", "location", "phone", "gbp", "keywords",
             "sitemap", "robots", "aggregate", "plan", "backfill", "return",
             "returned">>

\* the check blocks, the two probes included
Blocks == {PcOrder[i] : i \in 2..20}

PcIndex(p) == CHOOSE i \in 1..Len(PcOrder) : PcOrder[i] = p

\* the block after block p
NextPc(p) == PcOrder[PcIndex(p) + 1]

\* The page drawn so far is within the bounds: fs are the findings after the
\* block at pc, which is the (PcIndex(pc) - 1)-th check block.
Admit(fs) ==
    \/ Len(fs) <= MaxDirty
    \/ (PcIndex(pc) - 1) - Len(fs) <= MaxClean

\* a findings.append({...}) argument
Finding(category, issue, impact, fix) ==
    [category |-> category, issue |-> issue, impact |-> impact, fix |-> fix]

\* scores[key] += n, a sign slip of scores[key] -= n
DeductAdds(s, key, n) == [s EXCEPT ![key] = @ + n]

\* a deduction that doubles once the score has already been cut
DeductEscalating(s, key, n) ==
    [s EXCEPT ![key] = IF @ < 100 THEN @ - 2 * n ELSE @ - n]

\* the deduction made twice
DeductTwice(s, key, n) == [s EXCEPT ![key] = @ - 2 * n]

\* scores[key] -= n
Deduct(s, key, n) == [s EXCEPT ![key] = @ - n]

\* the append without the deduction
TriggerNoDeduct(f, key, n) ==
    /\ findings' = Append(findings, f)
    /\ UNCHANGED scores

\* a check block that triggers: one append and one deduction
Trigger(f, key, n) ==
    /\ findings' = Append(findings, f)
    /\ scores' = Deduct(scores, key, n)

\* a check block that triggers and suggests a quick win
TriggerWin(f, key, n, win) ==
    /\ Trigger(f, key, n)
    /\ quick_wins' = Append(quick_wins, win)

\* the variables no check block touches
tail == <<status, summary, thirty_day_plan, result, error, lead_id, delivery,
          response>>

\* what the steps around the check blocks leave alone besides the page
outside == <<executed, lead_id, delivery, response>>

\* the outcomes of the two auxiliary probes
probes == <<sitemap_response, robots_response>>

\* no email has been attempted
NotSent == [audit |-> "none", owner |-> "none"]

\* ------------------------------------------------------------ Init
Init ==
    /\ pc = "fetch"
    /\ status = 0
    /\ scores = [technical |-> 100, on_page |-> 100, local |-> 100,
                 content |-> 100]
    /\ findings = <<>>
    /\ quick_wins = <<>>
    /\ word_count = -1
    /\ location_mentioned = FALSE
    /\ has_phone = FALSE
    /\ sitemap_response = 0
    /\ robots_response = 0
    /\ summary = ""
    /\ thirty_day_plan = <<>>
    /\ result = <<>>
    /\ error = ""
    /\ executed = {}
    /\ lead_id = 0
    /\ delivery = NotSent
    /\ response = <<>>

\* ------------------------------------------------------ primary fetch
\* the raise moved behind a first append and deduction
FetchRaisesAfterFinding ==
    /\ pc = "fetch"
    /\ pc' = "raised"
    /\ error' = "Failed to fetch website"
    /\ findings' = Append(findings,
           [category |-> "Technical", issue |-> "Site unreachable",
            impact |-> "High", fix |-> "Check hosting and DNS"])
    /\ scores' = [scores EXCEPT !.technical = @ - 15]
    /\ UNCHANGED <<status, quick_wins, word_count, location_mentioned,
                   has_phone, probes, summary, thirty_day_plan, result>>
    /\ UNCHANGED outside

\* requests.get raises a RequestException (connection error, timeout):
\* the handler at the end of the function re-raises it wrapped
FetchRaises ==
    /\ pc = "fetch"
    /\ pc' = "raised"
    /\ error' = "Failed to fetch website"
    /\ UNCHANGED <<status, scores, findings, quick_wins, word_count,
                   location_mentioned, has_phone, probes, summary,
                   thirty_day_plan, result>>
    /\ UNCHANGED outside

\* requests.get returns a response; its status code is never read
FetchReturns ==
    /\ pc = "fetch"
    /\ \E st \in Statuses : status' = st
    /\ pc' = "https"
    /\ UNCHANGED <<scores, findings, quick_wins, word_count,
                   location_mentioned, has_phone, probes, summary, thirty_day_plan,
                   result, error>>
    /\ UNCHANGED outside

\* ------------------------------------------------------------ checks
HttpsBlock ==
    /\ \E is_https \in BOOLEAN :
        IF ~is_https
        THEN TriggerWin(Finding("Technical", "Site not using HTTPS", "High",
                 "Install SSL certificate and redirect all HTTP traffic to HTTPS"),
                 "technical", 15,
                 "Install SSL certificate (HTTPS) - critical for trust and rankings")
        ELSE UNCHANGED <<findings, scores, quick_wins>>
    /\ UNCHANGED <<word_count, location_mentioned, has_phone, probes, tail>>

\* the block in its place in the function body
CheckHttps ==
    /\ pc = "https"
    /\ HttpsBlock
    /\ Admit(findings')
    /\ pc' = NextPc(pc)
    /\ executed' = executed \cup {pc}

\* netloc_www: the resolved host starts with 'www.'; no_www: removing
\* 'www.' from the requested URL leaves a substring of it (it held none)
WwwBlock ==
    /\ \E netloc_www \in BOOLEAN, no_www \in BOOLEAN :
        IF netloc_www /\ no_www
        THEN Trigger(Finding("Technical", "Inconsistent WWW usage", "Low",
                 "Choose either www or non-www and redirect the other consistently"),
                 "technical", 3)
        ELSE UNCHANGED <<findings, scores>>
    /\ UNCHANGED <<quick_wins, word_count, location_mentioned, has_phone, probes, tail>>

\* the block in its place in the function body
CheckWww ==
    /\ pc = "www"
    /\ WwwBlock
    /\ Admit(findings')
    /\ pc' = NextPc(pc)
    /\ executed' = executed \cup {pc}

\* has_title: soup.find('title') with a non-empty string
TitleBlock ==
    /\ \E has_title \in BOOLEAN, title_length \in TitleLengths :
        IF ~has_title
        THEN TriggerWin(Finding("On-Page", "Missing title tag", "High",
                 "Add a descriptive title tag (50-60 characters) including main keyword and location"),
                 "on_page", 20,
                 "Add title tag like '" \o business_type \o " in " \o location
                     \o " | Your Business Name'")
        ELSE IF title_length < 30
        THEN /\ Trigger(Finding("On-Page",
                     "Title tag too short (" \o ToString(title_length) \o " chars)",
                     "Medium",
                     "Expand title to 50-60 characters with location and service keywords"),
                     "on_page", 10)
             /\ UNCHANGED quick_wins
        ELSE IF title_length > 60
        THEN /\ Trigger(Finding("On-Page",
                     "Title tag too long (" \o ToString(title_length) \o " chars)",
                     "Low",
                     "Shorten title to under 60 characters to avoid truncation in search results"),
                     "on_page", 5)
             /\ UNCHANGED quick_wins
        ELSE UNCHANGED <<findings, scores, quick_wins>>
    /\ UNCHANGED <<word_count, location_mentioned, has_phone, probes, tail>>

\* the block in its place in the function body
CheckTitle ==
    /\ pc = "title"
    /\ TitleBlock
    /\ Admit(findings')
    /\ pc' = NextPc(pc)
    /\ executed' = executed \cup {pc}

\* has_desc: a meta description tag with non-empty content
MetaBlock ==
    /\ \E has_desc \in BOOLEAN, desc_length \in DescLengths :
        IF ~has_desc
        THEN TriggerWin(Finding("On-Page", "Missing meta description", "Medium",
                 "Add meta description (150-160 characters) highlighting services and location"),
                 "on_page", 10,
                 "Add meta description mentioning your services and location")
        ELSE IF desc_length < 120
        THEN /\ Trigger(Finding("On-Page",
                     "Meta description too short (" \o ToString(desc_length) \o " chars)",
                     "Low",
                     "Expand to 150-160 characters for better click-through rates"),
                     "on_page", 5)
             /\ UNCHANGED quick_wins
        ELSE IF desc_length > 160
        THEN /\ Trigger(Finding("On-Page",
                     "Meta description too long (" \o ToString(desc_length) \o " chars)",
                     "Low",
                     "Shorten to 150-160 characters to avoid truncation"),
                     "on_page", 3)
             /\ UNCHANGED quick_wins
        ELSE UNCHANGED <<findings, scores, quick_wins>>
    /\ UNCHANGED <<word_count, location_mentioned, has_phone, probes, tail>>

\* the block in its place in the function body
CheckMeta ==
    /\ pc = "meta"
    /\ MetaBlock
    /\ Admit(findings')
    /\ pc' = NextPc(pc)
    /\ executed' = executed \cup {pc}

H1Block ==
    /\ \E h1_tags \in H1Counts :
        IF h1_tags = 0
        THEN TriggerWin(Finding("On-Page", "No H1 heading found", "High",
                 "Add one clear H1 tag describing your main service and location"),
                 "on_page", 15,
                 "Add H1 heading like '" \o business_type \o " Services in "
                     \o location \o "'")
        ELSE IF h1_tags > 1
        THEN /\ Trigger(Finding("On-Page",
                     "Multiple H1 tags found (" \o ToString(h1_tags) \o ")",
                     "Low", "Use only one H1 per page for main heading"),
                     "on_page", 5)
             /\ UNCHANGED quick_wins
        ELSE UNCHANGED <<findings, scores, quick_wins>>
    /\ UNCHANGED <<word_count, location_mentioned, has_phone, probes, tail>>

\* the block in its place in the function body
CheckH1 ==
    /\ pc = "h1"
    /\ H1Block
    /\ Admit(findings')
    /\ pc' = NextPc(pc)
    /\ executed' = executed \cup {pc}

CanonicalBlock ==
    /\ \E canonical \in BOOLEAN :
        IF ~canonical
        THEN Trigger(Finding("Technical", "Missing canonical tag", "Medium",
                 "Add canonical tag to prevent duplicate content issues"),
                 "technical", 8)
        ELSE UNCHANGED <<findings, scores>>
    /\ UNCHANGED <<quick_wins, word_count, location_mentioned, has_phone, probes, tail>>

\* the block in its place in the function body
CheckCanonical ==
    /\ pc = "canonical"
    /\ CanonicalBlock
    /\ Admit(findings')
    /\ pc' = NextPc(pc)
    /\ executed' = executed \cup {pc}

\* robots_meta: a robots meta tag exists; noindex: its content holds 'noindex'
RobotsMetaBlock ==
    /\ \E robots_meta \in BOOLEAN, noindex \in BOOLEAN :
        IF robots_meta /\ noindex
        THEN TriggerWin(Finding("Technical",
                 "Page set to NOINDEX - blocking search engines", "High",
                 "Remove 'noindex' from robots meta tag immediately"),
                 "technical", 25,
                 "Remove NOINDEX tag - your site is currently hidden from Google!")
        ELSE UNCHANGED <<findings, scores, quick_wins>>
    /\ UNCHANGED <<word_count, location_mentioned, has_phone, probes, tail>>

\* the block in its place in the function body
CheckRobotsMeta ==
    /\ pc = "robots_meta"
    /\ RobotsMetaBlock
    /\ Admit(findings')
    /\ pc' = NextPc(pc)
    /\ executed' = executed \cup {pc}

OpenGraphBlock ==
    /\ \E og_tags \in OgCounts :
        IF og_tags < 3
        THEN Trigger(Finding("On-Page",
                 "Incomplete Open Graph tags for social sharing", "Low",
                 "Add og:title, og:description, og:image for better social media sharing"),
                 "on_page", 5)
        ELSE UNCHANGED <<findings, scores>>
    /\ UNCHANGED <<quick_wins, word_count, location_mentioned, has_phone, probes, tail>>

\* the block in its place in the function body
CheckOpenGraph ==
    /\ pc = "og"
    /\ OpenGraphBlock
    /\ Admit(findings')
    /\ pc' = NextPc(pc)
    /\ executed' = executed \cup {pc}

SchemaBlock ==
    /\ \E schema_scripts \in BOOLEAN :
        IF ~schema_scripts
        THEN TriggerWin(Finding("Technical",
                 "No structured data (Schema.org) found", "Medium",
                 "Add LocalBusiness schema markup for better local search visibility"),
                 "technical", 12,
                 "Add LocalBusiness schema for Google Business Profile integration")
        ELSE UNCHANGED <<findings, scores, quick_wins>>
    /\ UNCHANGED <<word_count, location_mentioned, has_phone, probes, tail>>

\* the block in its place in the function body
CheckSchema ==
    /\ pc = "schema"
    /\ SchemaBlock
    /\ Admit(findings')
    /\ pc' = NextPc(pc)
    /\ executed' = executed \cup {pc}

PageSizeBlock ==
    /\ \E page_size_kb \in PageSizesKb :
        IF page_size_kb > 2000
        THEN Trigger(Finding("Technical",
                 "Large page size (" \o ToString(page_size_kb) \o " KB)",
                 "Medium",
                 "Optimize images and minimize CSS/JS to improve load speed"),
                 "technical", 8)
        ELSE UNCHANGED <<findings, scores>>
    /\ UNCHANGED <<quick_wins, word_count, location_mentioned, has_phone, probes, tail>>

\* the block in its place in the function body
CheckPageSize ==
    /\ pc = "page_size"
    /\ PageSizeBlock
    /\ Admit(findings')
    /\ pc' = NextPc(pc)
    /\ executed' = executed \cup {pc}

\* load_time is in tenths of a second: load_time > 3 is load_time > 30
LoadTimeBlock ==
    /\ \E load_time \in LoadTimes :
        IF load_time > 30
        THEN Trigger(Finding("Technical",
                 "Slow page load (" \o ToString(load_time \div 10) \o "."
                     \o ToString(load_time % 10) \o " seconds)",
                 "Medium", "Improve server response time and enable caching"),
                 "technical", 10)
        ELSE UNCHANGED <<findings, scores>>
    /\ UNCHANGED <<quick_wins, word_count, location_mentioned, has_phone, probes, tail>>

\* the block in its place in the function body
CheckLoadTime ==
    /\ pc = "load_time"
    /\ LoadTimeBlock
    /\ Admit(findings')
    /\ pc' = NextPc(pc)
    /\ executed' = executed \cup {pc}

LinksBlock ==
    /\ \E internal_links \in LinkCounts :
        IF internal_links < 5
        THEN Trigger(Finding("On-Page",
                 "Few internal links (" \o ToString(internal_links) \o ")",
                 "Low",
                 "Add more internal links to improve site navigation and SEO"),
                 "on_page", 5)
        ELSE UNCHANGED <<findings, scores>>
    /\ UNCHANGED <<quick_wins, word_count, location_mentioned, has_phone, probes, tail>>

\* the block in its place in the function body
CheckLinks ==
    /\ pc = "links"
    /\ LinksBlock
    /\ Admit(findings')
    /\ pc' = NextPc(pc)
    /\ executed' = executed \cup {pc}

WordCountBlock ==
    /\ \E wc \in WordCounts :
        /\ word_count' = wc
        /\ IF wc < 300
           THEN TriggerWin(Finding("Content",
                    "Thin content (" \o ToString(wc) \o " words)", "High",
                    "Add more descriptive content (aim for 500+ words) about services, process, and benefits"),
                    "content", 20,
                    "Expand homepage content to at least 500 words with service details")
           ELSE IF wc < 500
           THEN /\ Trigger(Finding("Content",
                        "Limited content (" \o ToString(wc) \o " words)",
                        "Medium",
                        "Add more content about services, benefits, and unique value proposition"),
                        "content", 10)
                /\ UNCHANGED quick_wins
           ELSE UNCHANGED <<findings, scores, quick_wins>>
    /\ UNCHANGED <<location_mentioned, has_phone, probes, tail>>

\* the block in its place in the function body
CheckWordCount ==
    /\ pc = "word_count"
    /\ WordCountBlock
    /\ Admit(findings')
    /\ pc' = NextPc(pc)
    /\ executed' = executed \cup {pc}

LocationBlock ==
    /\ \E mentioned \in BOOLEAN :
        /\ location_mentioned' = mentioned
        /\ IF ~mentioned
           THEN TriggerWin(Finding("Local SEO",
                    "Location '" \o location \o "' not mentioned on homepage",
                    "High",
                    "Add '" \o location \o "' to title, headings, and content for local SEO"),
                    "local", 20,
                    "Add '" \o location \o "' to your homepage title and content")
           ELSE UNCHANGED <<findings, scores, quick_wins>>
    /\ UNCHANGED <<word_count, has_phone, probes, tail>>

\* the block in its place in the function body
CheckLocation ==
    /\ pc = "location"
    /\ LocationBlock
    /\ Admit(findings')
    /\ pc' = NextPc(pc)
    /\ executed' = executed \cup {pc}

PhoneBlock ==
    /\ \E phone \in BOOLEAN :
        /\ has_phone' = phone
        /\ IF ~phone
           THEN Trigger(Finding("Local SEO",
                    "No phone number detected on homepage", "Medium",
                    "Add visible phone number in header/footer for local trust signals"),
                    "local", 15)
           ELSE UNCHANGED <<findings, scores>>
    /\ UNCHANGED <<quick_wins, word_count, location_mentioned, probes, tail>>

\* the block in its place in the function body
CheckPhone ==
    /\ pc = "phone"
    /\ PhoneBlock
    /\ Admit(findings')
    /\ pc' = NextPc(pc)
    /\ executed' = executed \cup {pc}

GbpLinkBlock ==
    /\ \E has_gbp_link \in BOOLEAN :
        IF ~has_gbp_link
        THEN Trigger(Finding("Local SEO",
                 "No Google Business Profile link detected", "Medium",
                 "Link to your Google Business Profile from homepage"),
                 "local", 10)
        ELSE UNCHANGED <<findings, scores>>
    /\ UNCHANGED <<quick_wins, word_count, location_mentioned, has_phone, probes, tail>>

\* the block in its place in the function body
CheckGbpLink ==
    /\ pc = "gbp"
    /\ GbpLinkBlock
    /\ Admit(findings')
    /\ pc' = NextPc(pc)
    /\ executed' = executed \cup {pc}

\* keywords_found < len(business_keywords) / 2, without the division
KeywordsBlock ==
    /\ \E keywords_found \in 0..Len(business_keywords) :
        IF 2 * keywords_found < Len(business_keywords)
        THEN Trigger(Finding("Content", "Service keywords underutilized",
                 "Medium",
                 "Use '" \o business_type \o "' keywords more naturally throughout content"),
                 "content", 12)
        ELSE UNCHANGED <<findings, scores>>
    /\ UNCHANGED <<quick_wins, word_count, location_mentioned, has_phone, probes, tail>>

\* the block in its place in the function body
CheckKeywords ==
    /\ pc = "keywords"
    /\ KeywordsBlock
    /\ Admit(findings')
    /\ pc' = NextPc(pc)
    /\ executed' = executed \cup {pc}

\* ------------------------------------------------ auxiliary probes
\* status codes a probe GET may return
ProbeStatuses == {200, 404}

\* the probe returned 404 and only the deduction was made
SitemapNon200Silent ==
    /\ scores' = Deduct(scores, "technical", 10)
    /\ UNCHANGED findings

\* sitemap_response.status_code != 200
SitemapNon200 ==
    Trigger(Finding("Technical", "No sitemap.xml found", "Medium",
                "Create and submit XML sitemap to Google Search Console"),
            "technical", 10)

\* except: pass, as the robots.txt probe has it
SitemapRaisedPass == UNCHANGED <<findings, scores>>

\* the except branch of the sitemap probe
SitemapRaised ==
    Trigger(Finding("Technical", "sitemap.xml not accessible", "Medium",
                "Create XML sitemap at /sitemap.xml"),
            "technical", 10)

\* raised: the probe GET raises (the bare except catches everything)
SitemapBlock ==
    /\ \E raised \in BOOLEAN, status_code \in ProbeStatuses :
        IF raised
        THEN sitemap_response' = -1 /\ SitemapRaised
        ELSE /\ sitemap_response' = status_code
             /\ IF status_code # 200
                THEN SitemapNon200
                ELSE UNCHANGED <<findings, scores>>
    /\ UNCHANGED <<quick_wins, word_count, location_mentioned, has_phone,
                   robots_response, tail>>

\* the block in its place in the function body
ProbeSitemap ==
    /\ pc = "sitemap"
    /\ SitemapBlock
    /\ Admit(findings')
    /\ pc' = NextPc(pc)
    /\ executed' = executed \cup {pc}

\* robots_response.status_code != 200
RobotsNon200 ==
    Trigger(Finding("Technical", "No robots.txt found", "Low",
                "Create robots.txt file to guide search engine crawlers"),
            "technical", 5)

\* except: pass
RobotsBlock ==
    /\ \E raised \in BOOLEAN, status_code \in ProbeStatuses :
        IF raised
        THEN robots_response' = -1 /\ UNCHANGED <<findings, scores>>
        ELSE /\ robots_response' = status_code
             /\ IF status_code # 200
                THEN RobotsNon200
                ELSE UNCHANGED <<findings, scores>>
    /\ UNCHANGED <<quick_wins, word_count, location_mentioned, has_phone,
                   sitemap_response, tail>>

\* the block in its place in the function body
ProbeRobots ==
    /\ pc = "robots"
    /\ RobotsBlock
    /\ Admit(findings')
    /\ pc' = NextPc(pc)
    /\ executed' = executed \cup {pc}

\* ------------------------------------------------------ aggregation
\* max(0, x)
Max0(x) == IF x > 0 THEN x ELSE 0

\* sum(scores.values())
ScoreSum(s) == s.technical + s.on_page + s.local + s.content

\* f"{total / 4:.0f}": the quotient rounded to the nearest integer, a half
\* to the even neighbour
Format0f(total) ==
    LET q == total \div 4
        r == total % 4
    IN  ToString(IF r < 2 THEN q
                 ELSE IF r > 2 THEN q + 1
                 ELSE IF q % 2 = 0 THEN q ELSE q + 1)

\* the third band entered at avg_score >= 50 in place of 40
SummaryForShifted(total) ==
    IF total >= 320
    THEN "Great job! Your site has a strong SEO foundation with an overall score of "
             \o Format0f(total)
             \o "/100. Focus on the quick wins below to improve further."
    ELSE IF total >= 240
    THEN "Good start! Your site scores " \o Format0f(total)
             \o "/100. There are several opportunities to improve rankings with the fixes below."
    ELSE IF total >= 200
    THEN "Your site scores " \o Format0f(total)
             \o "/100. Significant SEO improvements needed, but the good news is many are quick fixes!"
    ELSE "Your site needs SEO attention (score: " \o Format0f(total)
             \o "/100). The issues below are holding you back from ranking well."

\* the lower bounds of the bands taken as exclusive: avg_score > 80, ...
SummaryForExclusive(total) ==
    IF total > 320
    THEN "Great job! Your site has a strong SEO foundation with an overall score of "
             \o Format0f(total)
             \o "/100. Focus on the quick wins below to improve further."
    ELSE IF total > 240
    THEN "Good start! Your site scores " \o Format0f(total)
             \o "/100. There are several opportunities to improve rankings with the fixes below."
    ELSE IF total > 160
    THEN "Your site scores " \o Format0f(total)
             \o "/100. Significant SEO improvements needed, but the good news is many are quick fixes!"
    ELSE "Your site needs SEO attention (score: " \o Format0f(total)
             \o "/100). The issues below are holding you back from ranking well."

\* the summary chosen for the sum of the four scores; avg_score >= 80 is
\* total >= 320, and so on
SummaryFor(total) ==
    IF total >= 320
    THEN "Great job! Your site has a strong SEO foundation with an overall score of "
             \o Format0f(total)
             \o "/100. Focus on the quick wins below to improve further."
    ELSE IF total >= 240
    THEN "Good start! Your site scores " \o Format0f(total)
             \o "/100. There are several opportunities to improve rankings with the fixes below."
    ELSE IF total >= 160
    THEN "Your site scores " \o Format0f(total)
             \o "/100. Significant SEO improvements needed, but the good news is many are quick fixes!"
    ELSE "Your site needs SEO attention (score: " \o Format0f(total)
             \o "/100). The issues below are holding you back from ranking well."

\* the clamp loop and the choice of the summary
Aggregate ==
    /\ pc = "aggregate"
    /\ scores' = [key \in DOMAIN scores |-> Max0(scores[key])]
    /\ summary' = SummaryFor(ScoreSum(scores'))
    /\ pc' = NextPc(pc)
    /\ UNCHANGED <<status, findings, quick_wins, word_count,
                   location_mentioned, has_phone, probes, thirty_day_plan, result,
                   error>>
    /\ UNCHANGED outside

\* ------------------------------------------------------ 30-day plan
\* s[:n]
Take(s, n) == SubSeq(s, 1, IF Len(s) < n THEN Len(s) ELSE n)

\* [f for f in findings if f["impact"] == impact]
WithImpact(fs, impact) ==
    LET Hit(f) == f.impact = impact IN SelectSeq(fs, Hit)

\* ', '.join(...), the wrong separator
RECURSIVE JoinFixesComma(_)
JoinFixesComma(fs) ==
    IF fs = <<>> THEN ""
    ELSE IF Len(fs) = 1 THEN "Fix: " \o fs[1].issue
    ELSE "Fix: " \o fs[1].issue \o ", " \o JoinFixesComma(Tail(fs))

\* '; '.join(f"Fix: {f['issue']}" for f in fs)
RECURSIVE JoinFixes(_)
JoinFixes(fs) ==
    IF fs = <<>> THEN ""
    ELSE IF Len(fs) = 1 THEN "Fix: " \o fs[1].issue
    ELSE "Fix: " \o fs[1].issue \o "; " \o JoinFixes(Tail(fs))

BuildPlan ==
    /\ pc = "plan"
    /\ LET critical_fixes == WithImpact(findings, "High")
           medium_fixes == WithImpact(findings, "Medium")
           week1 == IF critical_fixes # <<>>
                    THEN "Week 1: " \o JoinFixes(Take(critical_fixes, 2))
                    ELSE "Week 1: Create Google Business Profile and verify location"
           week2 == IF medium_fixes # <<>>
                    THEN "Week 2: " \o JoinFixes(Take(medium_fixes, 2))
                    ELSE "Week 2: Build 5 local citations (Yelp, Facebook, industry directories)"
       IN  thirty_day_plan' =
               << week1, week2,
                  "Week 3: Create 2-3 service pages targeting '" \o business_type
                      \o "' + '" \o location \o "' keywords",
                  "Week 4: Get 3-5 customer reviews on Google Business Profile" >>
    /\ pc' = NextPc(pc)
    /\ UNCHANGED <<status, scores, findings, quick_wins, word_count,
                   location_mentioned, has_phone, probes, summary, result, error>>
    /\ UNCHANGED outside

\* ------------------------------------------------- quick-win backfill
\* the three conditional appends, in source order
BackfillWins(qw) ==
    LET a == IF ~location_mentioned
             THEN Append(qw, "Add '" \o location \o "' to homepage title and content")
             ELSE qw
        b == IF word_count < 500
             THEN Append(a, "Expand homepage to 500+ words")
             ELSE a
    IN  IF ~has_phone
        THEN Append(b, "Add phone number to header/footer")
        ELSE b

Backfill ==
    /\ pc = "backfill"
    /\ quick_wins' = IF Len(quick_wins) < 3 THEN BackfillWins(quick_wins)
                     ELSE quick_wins
    /\ pc' = NextPc(pc)
    /\ UNCHANGED <<status, scores, findings, word_count, location_mentioned,
                   has_phone, probes, summary, thirty_day_plan, result, error>>
    /\ UNCHANGED outside

\* ------------------------------------------------------------ return
\* the sort key {"High": 0, "Medium": 1, "Low": 2}[x["impact"]]
ImpactKey(f) ==
    IF f.impact = "High" THEN 0 ELSE IF f.impact = "Medium" THEN 1 ELSE 2

\* insertion before the first element with a key not smaller: elements of
\* equal key come out in reverse order
RECURSIVE InsertBeforeEqual(_, _)
InsertBeforeEqual(x, s) ==
    IF s = <<>> THEN <<x>>
    ELSE IF ImpactKey(Head(s)) < ImpactKey(x)
    THEN <<Head(s)>> \o InsertBeforeEqual(x, Tail(s))
    ELSE <<x>> \o s

\* insertion behind every element with a key not greater
RECURSIVE InsertByKey(_, _)
InsertByKey(x, s) ==
    IF s = <<>> THEN <<x>>
    ELSE IF ImpactKey(Head(s)) <= ImpactKey(x)
    THEN <<Head(s)>> \o InsertByKey(x, Tail(s))
    ELSE <<x>> \o s

\* sorted(fs, key=ImpactKey): the elements are inserted in list order, so
\* elements of equal key keep their order, as Python's sort guarantees
RECURSIVE Sorted(_)
Sorted(fs) ==
    IF fs = <<>> THEN <<>>
    ELSE InsertByKey(fs[Len(fs)], Sorted(SubSeq(fs, 1, Len(fs) - 1)))

Disclaimer ==
    "This audit provides general SEO recommendations. Results may vary. For best results, implement fixes systematically and monitor progress in Google Search Console."

\* quick_wins[:6], an off-by-one of the cap
QuickWinsCapSix(qw) == Take(qw, 6)

\* quick_wins[:4], the off-by-one the other way
QuickWinsCapFour(qw) == Take(qw, 4)

\* quick_wins[:5]
QuickWinsCap(qw) == Take(qw, 5)

Return ==
    /\ pc = "return"
    /\ result' = << [summary |-> summary,
                     scores |-> scores,
                     findings |-> Sorted(findings),
                     quick_wins |-> QuickWinsCap(quick_wins),
                     plan |-> thirty_day_plan,
                     disclaimer |-> Disclaimer] >>
    /\ pc' = NextPc(pc)
    /\ UNCHANGED <<status, scores, findings, quick_wins, word_count,
                   location_mentioned, has_phone, probes, summary, thirty_day_plan,
                   error>>
    /\ UNCHANGED outside

Next ==
    \/ FetchRaises
    \/ FetchReturns
    \/ CheckHttps
    \/ CheckWww
    \/ CheckTitle
    \/ CheckMeta
    \/ CheckH1
    \/ CheckCanonical
    \/ CheckRobotsMeta
    \/ CheckOpenGraph
    \/ CheckSchema
    \/ CheckPageSize
    \/ CheckLoadTime
    \/ CheckLinks
    \/ CheckWordCount
    \/ CheckLocation
    \/ CheckPhone
    \/ CheckGbpLink
    \/ CheckKeywords
    \/ ProbeSitemap
    \/ ProbeRobots
    \/ Aggregate
    \/ BuildPlan
    \/ Backfill
    \/ Return

Spec == Init /\ [][Next]_vars

\* ------------------------------------------- the aggregation alone
\* running scores the aggregation is applied to: the values on both sides
\* of the band limits, and one below the floor of the clamp
ScoreGrid == {-4, 0, 39, 40, 59, 60, 79, 80, 100}

\* the function body entered at the clamp loop with any scores of the grid
InitSummary ==
    /\ pc = "aggregate"
    /\ scores \in [{"technical", "on_page", "local", "content"} -> ScoreGrid]
    /\ status = 200
    /\ findings = <<>>
    /\ quick_wins = <<>>
    /\ word_count = -1
    /\ location_mentioned = FALSE
    /\ has_phone = FALSE
    /\ sitemap_response = 0
    /\ robots_response = 0
    /\ summary = ""
    /\ thirty_day_plan = <<>>
    /\ result = <<>>
    /\ error = ""
    /\ executed = Blocks
    /\ lead_id = 0
    /\ delivery = NotSent
    /\ response = <<>>

NextSummary == Aggregate

SpecSummary == InitSummary /\ [][NextSummary]_vars

\* ------------------------------------------- the check blocks in any order
\* The check blocks of the function body taken in an arbitrary order, each at
\* most once, followed by the clamp.
InitAnyOrder ==
    /\ pc = "checks"
    /\ status = 200
    /\ scores = [technical |-> 100, on_page |-> 100, local |-> 100,
                 content |-> 100]
    /\ findings = <<>>
    /\ quick_wins = <<>>
    /\ word_count = -1
    /\ location_mentioned = FALSE
    /\ has_phone = FALSE
    /\ sitemap_response = 0
    /\ robots_response = 0
    /\ summary = ""
    /\ thirty_day_plan = <<>>
    /\ result = <<>>
    /\ error = ""
    /\ executed = {}
    /\ lead_id = 0
    /\ delivery = NotSent
    /\ response = <<>>

\* the check block named b
BlockAt(b) ==
    \/ b = "https" /\ HttpsBlock
    \/ b = "www" /\ WwwBlock
    \/ b = "title" /\ TitleBlock
    \/ b = "meta" /\ MetaBlock
    \/ b = "h1" /\ H1Block
    \/ b = "canonical" /\ CanonicalBlock
    \/ b = "robots_meta" /\ RobotsMetaBlock
    \/ b = "og" /\ OpenGraphBlock
    \/ b = "schema" /\ SchemaBlock
    \/ b = "page_size" /\ PageSizeBlock
    \/ b = "load_time" /\ LoadTimeBlock
    \/ b = "links" /\ LinksBlock
    \/ b = "word_count" /\ WordCountBlock
    \/ b = "location" /\ LocationBlock
    \/ b = "phone" /\ PhoneBlock
    \/ b = "gbp" /\ GbpLinkBlock
    \/ b = "keywords" /\ KeywordsBlock
    \/ b = "sitemap" /\ SitemapBlock
    \/ b = "robots" /\ RobotsBlock

\* one more block that triggers, any block that has not run yet
AnyOrderCheck ==
    /\ pc = "checks"
    /\ \E b \in Blocks \ executed :
        /\ BlockAt(b)
        /\ executed' = executed \cup {b}
    /\ findings' # findings
    /\ Len(findings') <= MaxPermuted
    /\ UNCHANGED pc

\* the blocks that are left find nothing and change nothing
FinishChecks ==
    /\ pc = "checks"
    /\ pc' = "aggregate"
    /\ UNCHANGED <<status, scores, findings, quick_wins, word_count,
                   location_mentioned, has_phone, probes, summary,
                   thirty_day_plan, result, error, outside>>

NextAnyOrder ==
    \/ AnyOrderCheck
    \/ FinishChecks
    \/ Aggregate

SpecAnyOrder == InitAnyOrder /\ [][NextAnyOrder]_vars

\* ------------------------------------------------- POST /audit (main.py)
\* raise HTTPException(status_code=500, detail=f"Audit failed: {str(e)}")
Http500(e) == << [status_code |-> 500, detail |-> "Audit failed: " \o e] >>

\* run_seo_audit, on the pages whose report has at most MaxReported findings
RunSeoAudit ==
    /\ Next
    /\ Len(findings') <= MaxReported

\* run_seo_audit raised: the outer except answers 500
AuditFailed ==
    /\ pc = "raised"
    /\ response' = Http500(error)
    /\ pc' = "failed"
    /\ UNCHANGED <<status, scores, findings, quick_wins, word_count,
                   location_mentioned, has_phone, probes, summary,
                   thirty_day_plan, result, error, executed, lead_id,
                   delivery>>

\* session.add(lead); session.commit(); session.refresh(lead)
StoreLead ==
    /\ pc = "returned"
    /\ \E outcome \in {"stored", "commit raised", "refresh raised"} :
        /\ lead_id' = IF outcome = "commit raised" THEN 0 ELSE 1
        /\ IF outcome = "stored"
           THEN /\ pc' = "audit_email"
                /\ UNCHANGED response
           ELSE /\ pc' = "failed"
                /\ response' = Http500(outcome)
    /\ UNCHANGED <<status, scores, findings, quick_wins, word_count,
                   location_mentioned, has_phone, probes, summary,
                   thirty_day_plan, result, error, executed, delivery>>

\* the inner except left out: the error of the audit email reaches the outer
\* except
EmailErrorPropagates ==
    /\ pc' = "failed"
    /\ response' = Http500("email")

\* except Exception as email_error: print(...)
EmailError ==
    /\ pc' = "respond"
    /\ UNCHANGED response

\* if settings.SENDGRID_API_KEY: send_audit_email(...)
\* api_key: settings.SENDGRID_API_KEY is set; env_key: os.getenv finds it;
\* accepted: sg.send returns
SendAuditEmail ==
    /\ pc = "audit_email"
    /\ \E api_key \in BOOLEAN, env_key \in BOOLEAN, accepted \in BOOLEAN :
        IF ~api_key
        THEN /\ delivery' = [delivery EXCEPT !.audit = "not called",
                                              !.owner = "not called"]
             /\ pc' = "respond"
             /\ UNCHANGED response
        ELSE IF ~env_key
        THEN /\ delivery' = [delivery EXCEPT !.audit = "skipped"]
             /\ pc' = "owner_notification"
             /\ UNCHANGED response
        ELSE IF accepted
        THEN /\ delivery' = [delivery EXCEPT !.audit = "sent"]
             /\ pc' = "owner_notification"
             /\ UNCHANGED response
        ELSE /\ delivery' = [delivery EXCEPT !.audit = "failed",
                                              !.owner = "not called"]
             /\ EmailError
    /\ UNCHANGED <<status, scores, findings, quick_wins, word_count,
                   location_mentioned, has_phone, probes, summary,
                   thirty_day_plan, result, error, executed, lead_id>>

\* if settings.OWNER_EMAIL: send_owner_notification(...)
\* the function returns early without the environment's key, which the audit
\* email has read before it
SendOwnerNotification ==
    /\ pc = "owner_notification"
    /\ \E owner_email \in BOOLEAN, accepted \in BOOLEAN :
        delivery' = [delivery EXCEPT !.owner =
                        IF ~owner_email THEN "not called"
                        ELSE IF delivery.audit = "skipped" THEN "skipped"
                        ELSE IF accepted THEN "sent"
                        ELSE "failed"]
    /\ pc' = "respond"
    /\ UNCHANGED <<status, scores, findings, quick_wins, word_count,
                   location_mentioned, has_phone, probes, summary,
                   thirty_day_plan, result, error, executed, lead_id,
                   response>>

\* return AuditResponse(...)
Respond ==
    /\ pc = "respond"
    /\ response' = << [status_code |-> 200,
                       lead_id |-> ToString(lead_id),
                       summary |-> result[1].summary,
                       scores |-> result[1].scores,
                       findings |-> result[1].findings,
                       quick_wins |-> result[1].quick_wins,
                       thirty_day_plan |-> result[1].plan,
                       disclaimer |-> result[1].disclaimer] >>
    /\ pc' = "responded"
    /\ UNCHANGED <<status, scores, findings, quick_wins, word_count,
                   location_mentioned, has_phone, probes, summary,
                   thirty_day_plan, result, error, executed, lead_id,
                   delivery>>

NextHandler ==
    \/ RunSeoAudit
    \/ AuditFailed
    \/ StoreLead
    \/ SendAuditEmail
    \/ SendOwnerNotification
    \/ Respond

SpecHandler == Init /\ [][NextHandler]_vars

\* ===================================================================
\* Properties
\* ===================================================================
Returned == result # <<>>

\* the report handed to the caller
Report == result[1]

ScoreKeys == {"technical", "on_page", "local", "content"}

\* the issue texts a check can report, by the number of the check in the
\* catalogue of the specification
IssuesOf(n) ==
    CASE n = 1 -> {"Site not using HTTPS"}
      [] n = 2 -> {"Inconsistent WWW usage"}
      [] n = 3 -> {"Missing title tag"}
      [] n = 4 -> {"Title tag too short (" \o ToString(k) \o " chars)" :
                       k \in TitleLengths}
      [] n = 5 -> {"Title tag too long (" \o ToString(k) \o " chars)" :
                       k \in TitleLengths}
      [] n = 6 -> {"Missing meta description"}
      [] n = 7 -> {"Meta description too short (" \o ToString(k) \o " chars)" :
                       k \in DescLengths}
      [] n = 8 -> {"Meta description too long (" \o ToString(k) \o " chars)" :
                       k \in DescLengths}
      [] n = 9 -> {"No H1 heading found"}
      [] n = 10 -> {"Multiple H1 tags found (" \o ToString(k) \o ")" :
                       k \in H1Counts}
      [] n = 11 -> {"Missing canonical tag"}
      [] n = 12 -> {"Page set to NOINDEX - blocking search engines"}
      [] n = 13 -> {"Incomplete Open Graph tags for social sharing"}
      [] n = 14 -> {"No structured data (Schema.org) found"}
      [] n = 15 -> {"Large page size (" \o ToString(k) \o " KB)" :
                       k \in PageSizesKb}
      [] n = 16 -> {"Slow page load (" \o ToString(k \div 10) \o "."
                       \o ToString(k % 10) \o " seconds)" : k \in LoadTimes}
      [] n = 17 -> {"Few internal links (" \o ToString(k) \o ")" :
                       k \in LinkCounts}
      [] n = 18 -> {"Thin content (" \o ToString(k) \o " words)" :
                       k \in WordCounts}
                   \cup {"Limited content (" \o ToString(k) \o " words)" :
                       k \in WordCounts}
      [] n = 19 -> {"Location '" \o location \o "' not mentioned on homepage"}
      [] n = 20 -> {"No phone number detected on homepage"}
      [] n = 21 -> {"No Google Business Profile link detected"}
      [] n = 22 -> {"Service keywords underutilized"}
      [] n = 23 -> {"No sitemap.xml found", "sitemap.xml not accessible"}
      [] n = 24 -> {"No robots.txt found"}

\* the check that reports each issue text
CheckOfIssue ==
    [issue \in UNION {IssuesOf(n) : n \in 1..24} |->
        CHOOSE n \in 1..24 : issue \in IssuesOf(n)]

\* the check, numbered as in the catalogue, that reports finding f
CheckOf(f) == CheckOfIssue[f.issue]

\* findings fs holds a finding of check n
Triggered(fs, n) == \E i \in 1..Len(fs) : CheckOf(fs[i]) = n

\* C1: each of the four scores of a returned report is an integer in 0..100
ScoresInRange ==
    Returned => \A key \in ScoreKeys : Report.scores[key] \in 0..100

\* a report after an audit in which every Technical check triggered
ScoresInRangeWitness ==
    /\ Returned
    /\ Report.scores.technical = 4
    /\ Report.scores.on_page < 100

\* C2: when the primary GET raises, the audit ends raised with the fetch
\* error: no report exists then or later, no finding has been appended, no
\* score reduced and no quick win recorded
FetchFailureRaisesCleanly ==
    /\ [](pc = "raised" =>
            /\ error = "Failed to fetch website"
            /\ ~Returned
            /\ findings = <<>>
            /\ quick_wins = <<>>
            /\ \A key \in ScoreKeys : scores[key] = 100)
    /\ [][pc = "raised" => pc' = "raised" /\ UNCHANGED vars]_vars
    /\ [][pc = "fetch" /\ error' # "" => pc' = "raised"]_vars

\* the primary GET has raised
FetchFailureWitness == pc = "raised" /\ error # "" /\ status = 0

\* C3: a primary GET that completes with a status other than 200 aborts the
\* audit: no report is returned
ErrorStatusAborts ==
    (status # 0 /\ status # 200) => ~Returned

\* C4: a sitemap probe that returns a non-200 status appends exactly one
\* finding, of category Technical, takes exactly 10 points from the
\* technical score and from no other, and raises nothing; the report
\* returned later holds exactly one finding of the sitemap check
SitemapNon200IsOneFinding ==
    /\ [][(pc = "sitemap" /\ sitemap_response' \notin {-1, 200}) =>
            /\ Len(findings') = Len(findings) + 1
            /\ SubSeq(findings', 1, Len(findings)) = findings
            /\ findings'[Len(findings')].category = "Technical"
            /\ scores' = [scores EXCEPT !.technical = @ - 10]
            /\ pc' = "robots"
            /\ error' = ""]_vars
    /\ []((sitemap_response \notin {0, -1, 200}) => pc # "raised" /\ error = "")
    /\ []((Returned /\ sitemap_response \notin {-1, 200}) =>
            Cardinality({i \in 1..Len(Report.findings) :
                CheckOf(Report.findings[i]) = 23}) = 1)

\* a report returned after the sitemap probe answered 404
SitemapNon200Witness ==
    /\ Returned
    /\ sitemap_response = 404
    /\ Triggered(Report.findings, 23)

\* a probe has just failed: its GET raised or returned a status other than 200
SitemapFails == pc = "sitemap" /\ sitemap_response' # 200
RobotsFails == pc = "robots" /\ robots_response' # 200

\* the step appends exactly one finding, of category Technical, and takes
\* n points from the technical score alone
OneTechnicalFinding(n) ==
    /\ Len(findings') = Len(findings) + 1
    /\ SubSeq(findings', 1, Len(findings)) = findings
    /\ findings'[Len(findings')].category = "Technical"
    /\ scores' = [scores EXCEPT !.technical = @ - n]

\* C5 as stated: every failure of either probe, a raised request or a
\* non-200 status, becomes one finding with a score deduction and no error
ProbeFailureIsFinding ==
    [][(SitemapFails \/ RobotsFails) =>
          /\ Len(findings') = Len(findings) + 1
          /\ ScoreSum(scores') < ScoreSum(scores)
          /\ error' = "" /\ pc' # "raised"]_vars

\* C5 amended: no failure of either probe raises; a sitemap failure of
\* either kind and a non-200 robots.txt status become one Technical finding
\* with its deduction (10 and 5); a robots.txt request that raises leaves
\* findings and scores as they were
ProbeFailureIsFindingButRobotsRaise ==
    /\ [][(SitemapFails \/ RobotsFails) => error' = "" /\ pc' # "raised"]_vars
    /\ [][SitemapFails => OneTechnicalFinding(10)]_vars
    /\ [][(RobotsFails /\ robots_response' # -1) => OneTechnicalFinding(5)]_vars
    /\ [][(RobotsFails /\ robots_response' = -1) =>
             UNCHANGED <<findings, scores>>]_vars

\* a report returned after both probe requests raised
ProbeFailureWitness ==
    /\ Returned
    /\ sitemap_response = -1
    /\ robots_response = -1
    /\ Triggered(Report.findings, 23)
    /\ ~Triggered(Report.findings, 24)

\* the deduction the catalogue of the specification gives for finding f
CatalogueDeduction(f) ==
    LET n == CheckOf(f)
    IN  CASE n = 1 -> 15 [] n = 2 -> 3 [] n = 3 -> 20 [] n = 4 -> 10
          [] n = 5 -> 5 [] n = 6 -> 10 [] n = 7 -> 5 [] n = 8 -> 3
          [] n = 9 -> 15 [] n = 10 -> 5 [] n = 11 -> 8 [] n = 12 -> 25
          [] n = 13 -> 5 [] n = 14 -> 12 [] n = 15 -> 8 [] n = 16 -> 10
          [] n = 17 -> 5
          [] n = 18 -> IF f.impact = "High" THEN 20 ELSE 10
          [] n = 19 -> 20 [] n = 20 -> 15 [] n = 21 -> 10 [] n = 22 -> 12
          [] n = 23 -> 10 [] n = 24 -> 5

\* the category the catalogue gives for check n
CatalogueCategory(n) ==
    IF n \in {1, 2, 11, 12, 14, 15, 16, 23, 24} THEN "Technical"
    ELSE IF n \in {3, 4, 5, 6, 7, 8, 9, 10, 13, 17} THEN "On-Page"
    ELSE IF n \in {19, 20, 21} THEN "Local SEO"
    ELSE "Content"

\* the score that belongs to a category
KeyOf(category) ==
    CASE category = "Technical" -> "technical"
      [] category = "On-Page" -> "on_page"
      [] category = "Local SEO" -> "local"
      [] category = "Content" -> "content"

\* the catalogue deductions of the findings of fs that belong to score key
RECURSIVE DeductionsOn(_, _)
DeductionsOn(fs, key) ==
    IF fs = <<>> THEN 0
    ELSE (IF KeyOf(Head(fs).category) = key
          THEN CatalogueDeduction(Head(fs)) ELSE 0)
         + DeductionsOn(Tail(fs), key)

\* C6: scores and findings never diverge.  Every step either leaves both
\* alone or appends one finding, of the catalogue's category, and takes the
\* catalogue's deduction from the score of that category alone; so every
\* running score is 100 less the deductions of the findings of its
\* category, and with no finding all four scores are 100
ScoresMatchFindings ==
    /\ [][\/ UNCHANGED <<findings, scores>>
          \/ LET f == findings'[Len(findings')]
             IN  /\ findings' = Append(findings, f)
                 /\ f.category = CatalogueCategory(CheckOf(f))
                 /\ scores' = [scores EXCEPT ![KeyOf(f.category)] =
                                   @ - CatalogueDeduction(f)]]_vars
    /\ [](\A key \in ScoreKeys :
            scores[key] = 100 - DeductionsOn(findings, key))
    /\ [](findings = <<>> => \A key \in ScoreKeys : scores[key] = 100)
    /\ [](Returned => \A key \in ScoreKeys :
            Report.scores[key] = 100 - DeductionsOn(Report.findings, key))

\* a report with findings in each of the four categories
ScoresMatchFindingsWitness ==
    /\ Returned
    /\ \A key \in ScoreKeys :
          /\ Report.scores[key] < 100
          /\ \E i \in 1..Len(Report.findings) :
                KeyOf(Report.findings[i].category) = key

\* the precedence of the impact levels in a report
ImpactRank(impact) ==
    CASE impact = "High" -> 1 [] impact = "Medium" -> 2 [] impact = "Low" -> 3

\* the place in the appended findings of the i-th finding of the report
PlaceOf(i) ==
    CHOOSE j \in 1..Len(findings) : findings[j] = Report.findings[i]

\* C7: the findings of a report are a permutation of the findings appended
\* during the audit, High before Medium before Low, and findings of equal
\* impact in the order in which they were appended
FindingsSortedStable ==
    Returned =>
        LET out == Report.findings
            n == Len(out)
        IN  /\ n = Len(findings)
            /\ \A j \in 1..n : \E i \in 1..n : out[i] = findings[j]
            /\ \A i, j \in 1..n :
                  i < j =>
                      /\ ImpactRank(out[i].impact) <= ImpactRank(out[j].impact)
                      /\ out[i].impact = out[j].impact => PlaceOf(i) < PlaceOf(j)

\* a report whose findings were reordered and which holds several findings
\* of each impact level
FindingsSortedWitness ==
    /\ Returned
    /\ Report.findings # findings
    /\ \A impact \in {"High", "Medium", "Low"} :
          Len(WithImpact(Report.findings, impact)) >= 2

\* the checks whose quick win the specification calls always included
CanonicalWins == {1, 3, 9, 12, 19}

\* the canned quick-win phrase of check n
WinOf(n) ==
    CASE n = 1 -> "Install SSL certificate (HTTPS) - critical for trust and rankings"
      [] n = 3 -> "Add title tag like '" \o business_type \o " in " \o location
                      \o " | Your Business Name'"
      [] n = 6 -> "Add meta description mentioning your services and location"
      [] n = 9 -> "Add H1 heading like '" \o business_type \o " Services in "
                      \o location \o "'"
      [] n = 12 -> "Remove NOINDEX tag - your site is currently hidden from Google!"
      [] n = 14 -> "Add LocalBusiness schema for Google Business Profile integration"
      [] n = 18 -> "Expand homepage content to at least 500 words with service details"
      [] n = 19 -> "Add '" \o location \o "' to your homepage title and content"

Range(seq) == {seq[i] : i \in 1..Len(seq)}

MinOf(a, b) == IF a < b THEN a ELSE b

\* C8: quick_wins of a report has at most 5 entries and at least min(5, k),
\* k the number of checks 1, 3, 9, 12 and 19 that triggered
QuickWinsLength ==
    Returned =>
        LET k == Cardinality({n \in CanonicalWins : Triggered(findings, n)})
        IN  /\ Len(Report.quick_wins) <= 5
            /\ Len(Report.quick_wins) >= MinOf(5, k)

\* a report after an audit that accumulated more than 5 quick wins, all five
\* named checks among them
QuickWinsLengthWitness ==
    /\ Returned
    /\ Len(quick_wins) > 5
    /\ \A n \in CanonicalWins : Triggered(findings, n)

\* the phrases of the checks of ns that are in the report are in it in
\* catalogue order
InCatalogueOrder(ns) ==
    \A n, m \in ns : \A i, j \in 1..Len(Report.quick_wins) :
        (n < m /\ Report.quick_wins[i] = WinOf(n)
               /\ Report.quick_wins[j] = WinOf(m)) => i < j

\* C9 as stated: the phrase of each of checks 1, 3, 9, 12 and 19 that
\* triggered is in the report, and these phrases are in catalogue order
CanonicalWinsPresent ==
    Returned =>
        /\ \A n \in CanonicalWins :
              Triggered(findings, n) => WinOf(n) \in Range(Report.quick_wins)
        /\ InCatalogueOrder(CanonicalWins)

\* the checks that append a quick win ahead of the location check; of check
\* 18 only the thin-content finding (impact High) does
EarlierWins ==
    {n \in {1, 3, 6, 9, 12, 14} : Triggered(findings, n)}
    \cup {n \in {18} : \E i \in 1..Len(findings) :
              CheckOf(findings[i]) = 18 /\ findings[i].impact = "High"}

\* C9 amended: the phrase of each of checks 1, 3, 9 and 12 that triggered is
\* in the report; the phrase of check 19 is in the report exactly when check
\* 19 triggered and fewer than 5 of the quick wins of checks 1, 3, 6, 9, 12,
\* 14 and 18 (thin content) precede it; the phrases are in catalogue order
CanonicalWinsPresentUnlessCut ==
    Returned =>
        /\ \A n \in CanonicalWins \ {19} :
              Triggered(findings, n) => WinOf(n) \in Range(Report.quick_wins)
        /\ WinOf(19) \in Range(Report.quick_wins)
              <=> (Triggered(findings, 19) /\ Cardinality(EarlierWins) < 5)
        /\ InCatalogueOrder(CanonicalWins)

\* a report that lost the location phrase to the cap, and holds the phrases
\* of the four other named checks
CanonicalWinsWitness ==
    /\ Returned
    /\ \A n \in CanonicalWins : Triggered(findings, n)
    /\ WinOf(19) \notin Range(Report.quick_wins)
    /\ \A n \in CanonicalWins \ {19} : WinOf(n) \in Range(Report.quick_wins)

\* the condition a quick-win suggestion is about
ConditionOf(win) ==
    IF win \in {WinOf(19), "Add '" \o location \o "' to homepage title and content"}
    THEN "location"
    ELSE IF win \in {WinOf(18), "Expand homepage to 500+ words"}
    THEN "content length"
    ELSE IF win = "Add phone number to header/footer"
    THEN "phone"
    ELSE win

\* the entries the backfill is said to append to qw: one for each condition
\* that is true and has no suggestion in qw
ClaimedBackfill(qw) ==
    LET has(c) == \E i \in 1..Len(qw) : ConditionOf(qw[i]) = c
    IN  IF Len(qw) >= 3 THEN <<>>
        ELSE (IF ~location_mentioned /\ ~has("location")
              THEN <<"Add '" \o location \o "' to homepage title and content">>
              ELSE <<>>)
          \o (IF word_count < 500 /\ ~has("content length")
              THEN <<"Expand homepage to 500+ words">> ELSE <<>>)
          \o (IF ~has_phone /\ ~has("phone")
              THEN <<"Add phone number to header/footer">> ELSE <<>>)

\* C10: with 3 or more quick wins nothing is backfilled; with fewer, one
\* entry is appended, in the order location, content length, phone, for
\* each condition that is true and has no quick win yet; the report never
\* holds two suggestions for one condition and holds at most 5
BackfillWithoutDuplicates ==
    /\ [][pc = "backfill" =>
             quick_wins' = quick_wins \o ClaimedBackfill(quick_wins)]_vars
    /\ [](Returned =>
            /\ Len(Report.quick_wins) <= 5
            /\ \A i, j \in 1..Len(Report.quick_wins) :
                  i # j => ConditionOf(Report.quick_wins[i])
                               # ConditionOf(Report.quick_wins[j]))

\* the places in the appended findings of the findings of one impact level
PlacesWith(impact) == {i \in 1..Len(findings) : findings[i].impact = impact}

\* the least element of a non-empty set of places
Least(P) == CHOOSE i \in P : \A j \in P : i <= j

\* the plan entry of a week: the issue texts of the first two findings of
\* the impact level, in the order of the checks, each behind "Fix: " and
\* joined by "; ", or the canned task when there is no such finding
PlanEntry(week, impact, canned) ==
    LET P == PlacesWith(impact)
    IN  IF P = {} THEN week \o canned
        ELSE IF Cardinality(P) = 1
        THEN week \o "Fix: " \o findings[Least(P)].issue
        ELSE week \o "Fix: " \o findings[Least(P)].issue \o "; Fix: "
                 \o findings[Least(P \ {Least(P)})].issue

\* C11: the plan of a report has exactly 4 entries; entry 1 lists the first
\* two High-impact findings or the Google Business Profile task, entry 2
\* the first two Medium-impact findings or the local-citations task, and
\* entries 3 and 4 are the two canned tasks whatever the findings are
PlanHasFourEntries ==
    Returned =>
        /\ Len(Report.plan) = 4
        /\ Report.plan[1] = PlanEntry("Week 1: ", "High",
               "Create Google Business Profile and verify location")
        /\ Report.plan[2] = PlanEntry("Week 2: ", "Medium",
               "Build 5 local citations (Yelp, Facebook, industry directories)")
        /\ Report.plan[3] = "Week 3: Create 2-3 service pages targeting '"
               \o business_type \o "' + '" \o location \o "' keywords"
        /\ Report.plan[4] = "Week 4: Get 3-5 customer reviews on Google Business Profile"

\* a report with more than two High-impact findings and no Medium-impact
\* finding
PlanWitness ==
    /\ Returned
    /\ Cardinality(PlacesWith("High")) > 2
    /\ PlacesWith("Medium") = {}
    /\ Report.plan[2] = "Week 2: Build 5 local citations (Yelp, Facebook, industry directories)"

\* the summaries of each of the four tiers, for every score they can show
Shown == {ToString(n) : n \in 0..100}

GreatJobTexts ==
    {"Great job! Your site has a strong SEO foundation with an overall score of "
         \o n \o "/100. Focus on the quick wins below to improve further." :
     n \in Shown}

GoodStartTexts ==
    {"Good start! Your site scores " \o n
         \o "/100. There are several opportunities to improve rankings with the fixes below." :
     n \in Shown}

QuickFixesTexts ==
    {"Your site scores " \o n
         \o "/100. Significant SEO improvements needed, but the good news is many are quick fixes!" :
     n \in Shown}

NeedsAttentionTexts ==
    {"Your site needs SEO attention (score: " \o n
         \o "/100). The issues below are holding you back from ranking well." :
     n \in Shown}

\* C15: the deductions recorded against any one score total less than 100,
\* no running score is negative at any point of an audit, and the clamp
\* leaves every score as it was
NoScoreEverNegative ==
    /\ [](\A key \in ScoreKeys :
            /\ scores[key] >= 0
            /\ DeductionsOn(findings, key) < 100)
    /\ [][pc = "aggregate" => scores' = scores]_vars

\* the clamp has run on the scores of a page on which every check of the
\* technical score triggered
NoScoreEverNegativeWitness ==
    /\ pc = "plan"
    /\ scores.technical = 4
    /\ DeductionsOn(findings, "technical") = 96

\* C16: the four scores of a report sum to at least 172, and the summary of
\* a report is never the one of the lowest tier
LowestTierNeverProduced ==
    Returned =>
        /\ ScoreSum(Report.scores) >= 172
        /\ Report.summary \notin NeedsAttentionTexts

\* a report whose scores sum to 172
LowestTierWitness ==
    /\ Returned
    /\ ScoreSum(Report.scores) = 172
    /\ Report.summary \in QuickFixesTexts

\* C12: the summary is chosen by the mean of the four clamped scores, that
\* is by their sum: at least 320 gives "Great job", 240 to 319 "Good start",
\* 160 to 239 the quick-fixes text, less than 160 the needs-attention text;
\* every sum gets the summary of exactly one tier
SummaryTiers ==
    pc = "plan" =>
        LET total == ScoreSum(scores)
        IN  /\ \A key \in ScoreKeys : scores[key] \in 0..100
            /\ total >= 320 => summary \in GreatJobTexts
            /\ (240 <= total /\ total < 320) => summary \in GoodStartTexts
            /\ (160 <= total /\ total < 240) => summary \in QuickFixesTexts
            /\ total < 160 => summary \in NeedsAttentionTexts
            /\ Cardinality({T \in {GreatJobTexts, GoodStartTexts,
                                   QuickFixesTexts, NeedsAttentionTexts} :
                               summary \in T}) = 1

\* scores that sum to exactly 320 got the "Great job" summary
SummaryTiersWitness ==
    /\ pc = "plan"
    /\ ScoreSum(scores) = 320
    /\ summary \in GreatJobTexts
\* the findings of fs in the order of the function body
RECURSIVE InBodyOrder(_, _)
InBodyOrder(fs, n) ==
    IF n > 24 THEN <<>>
    ELSE LET here == SelectSeq(fs, LAMBDA f : CheckOf(f) = n)
         IN  here \o InBodyOrder(fs, n + 1)

\* the scores after the deductions of fs, made one after another from s
RECURSIVE DeductAll(_, _)
DeductAll(s, fs) ==
    IF fs = <<>> THEN s
    ELSE DeductAll(Deduct(s, KeyOf(fs[1].category), CatalogueDeduction(fs[1])),
                   Tail(fs))

FreshScores == [key \in ScoreKeys |-> 100]

\* C14: when the check blocks run in any order, the four scores before the
\* clamp are the scores that the same triggered checks give in the order of
\* the function body, and the clamped scores are the clamp of those.
OrderIndependent ==
    LET in_order == DeductAll(FreshScores, InBodyOrder(findings, 1))
    IN  /\ pc \in {"checks", "aggregate"} => scores = in_order
        /\ pc = "plan" => scores = [key \in ScoreKeys |-> Max0(in_order[key])]

\* a permuted run has been clamped: three checks that cut the same score, taken
\* in an order the function body never takes
OrderIndependentWitness ==
    /\ pc = "plan"
    /\ Len(findings) = 3
    /\ CheckOf(findings[1]) > CheckOf(findings[2])
    /\ CheckOf(findings[2]) > CheckOf(findings[3])
    /\ findings[1].category = findings[2].category
    /\ findings[2].category = findings[3].category
    /\ scores[KeyOf(findings[1].category)] < 100

\* the request has got past the commit and refresh of the lead
LeadStored == pc \in {"audit_email", "owner_notification", "respond", "responded"}

\* an email of the request has failed
DeliveryFailed == delivery.audit = "failed" \/ delivery.owner = "failed"

\* C13: once the audit has returned a report and the lead is stored, the
\* request never ends in an error, whatever happens to the two emails: the
\* lead row stays, no error response is ever set, and the response sent is a
\* 200 that carries the lead id and the fields of the report.
EmailFailureNeverAborts ==
    /\ [](LeadStored =>
            /\ Returned
            /\ lead_id = 1
            /\ pc # "responded" => response = <<>>
            /\ pc = "responded" =>
                    /\ response # <<>>
                    /\ response[1].status_code = 200
                    /\ response[1].lead_id = "1"
                    /\ response[1].summary = Report.summary
                    /\ response[1].scores = Report.scores
                    /\ response[1].findings = Report.findings
                    /\ response[1].quick_wins = Report.quick_wins
                    /\ response[1].thirty_day_plan = Report.plan
                    /\ response[1].disclaimer = Report.disclaimer)
    /\ [](DeliveryFailed => pc \in {"respond", "responded"})
    /\ [][LeadStored => LeadStored' /\ lead_id' = lead_id]_vars

\* the audit email failed and the caller has the report of a page with a
\* finding
EmailFailureWitness ==
    /\ pc = "responded"
    /\ delivery.audit = "failed"
    /\ lead_id = 1
    /\ response[1].status_code = 200
    /\ Len(response[1].findings) = 1

====
